---- MODULE Spec2Model ----
(***************************************************************************)
(* Rental management application: rent / balance / late-fee calculator,   *)
(* the API route handlers over the relational store, and the page-level    *)
(* handlers of the web client that record payments and renew contracts.    *)
(*                                                                         *)
(* Time.  An instant is a count of ticks since 1970-01-01T00:00Z, with     *)
(* TicksPerDay ticks to a day, so new Date("YYYY-MM-DD").getTime() is      *)
(* DateTime(date) and new Date() is the variable now.  Calendar getters    *)
(* and setters (getMonth, setMonth, ...) are evaluated in a time zone at   *)
(* UTC or east of it without daylight saving, where the local calendar     *)
(* date of a UTC midnight is the UTC date.                                 *)
(*                                                                         *)
(* Money is an integer number of currency units.                           *)
(***************************************************************************)
EXTENDS Integers, Sequences, FiniteSets, TLC

VARIABLES
    rooms,        \* table rooms:     room id -> row
    contracts,    \* table contracts: contract id -> row
    payments,     \* table payments:  sequence of rows, in insertion order
    now,          \* wall clock, in ticks
    apiRooms,     \* useRooms().rooms: last response of GET /api/rooms
    dueContracts, \* useContracts({active, unpaid}).contracts
    activeContracts,  \* useContracts({active}).contracts
    pending,      \* the hooks with a fetch issued whose response has not arrived
    loading,      \* useRooms().loading
    roomsRequests,  \* the fetchRooms calls followed one by one, in the order
                  \* issued: [response, done]
    view,         \* what the page shows: the open dialog and its captured data
    confirmDialog \* the confirm dialog: the captured onConfirm closure

vars == <<rooms, contracts, payments, now, apiRooms, dueContracts,
          activeContracts, pending, loading, roomsRequests, view,
          confirmDialog>>

dbVars == <<rooms, contracts, payments>>
clientVars == <<apiRooms, dueContracts, activeContracts, pending, loading,
                roomsRequests, view, confirmDialog>>

-----------------------------------------------------------------------------
(* Bounds of the model *)

TicksPerDay == 2
MaxPayments == 3
MaxSysPayments == 2
MaxClockDays == 12

-----------------------------------------------------------------------------
(* JavaScript values *)

NULL == -1

\* truthiness of an optional number: null, undefined and 0 are falsy
Truthy(x) == x # NULL /\ x # 0

Max(a, b) == IF a >= b THEN a ELSE b

\* Math.ceil(a / b) for b > 0
CeilDiv(a, b) == -((-a) \div b)

\* Math.round(a / b) for b > 0: floor(a / b + 1/2)
RoundDiv(a, b) == (2 * a + b) \div (2 * b)

-----------------------------------------------------------------------------
(* Date: a date string "YYYY-MM-DD" is the record [y, m, d], m in 1..12 *)

\* days from 1970-01-01 to the civil date (what Date.parse yields, in days)
DaysFromCivil(y, m, d) ==
    LET yy  == IF m <= 2 THEN y - 1 ELSE y
        era == yy \div 400
        yoe == yy - era * 400
        mp  == (m + 9) % 12
        doy == (153 * mp + 2) \div 5 + d - 1
        doe == yoe * 365 + yoe \div 4 - yoe \div 100 + doy
    IN  era * 146097 + doe - 719468

\* the civil date of a day number (getFullYear / getMonth / getDate)
CivilFromDays(z) ==
    LET OfMonth(era, yoe, d, m) ==
            [y |-> yoe + era * 400 + (IF m <= 2 THEN 1 ELSE 0),
             m |-> m, d |-> d]
        OfMp(era, yoe, doy, mp) ==
            OfMonth(era, yoe, doy - (153 * mp + 2) \div 5 + 1,
                    IF mp < 10 THEN mp + 3 ELSE mp - 9)
        OfDoy(era, yoe, doy) == OfMp(era, yoe, doy, (5 * doy + 2) \div 153)
        OfYoe(era, doe, yoe) ==
            OfDoy(era, yoe, doe - (365 * yoe + yoe \div 4 - yoe \div 100))
        OfDoe(era, doe) ==
            OfYoe(era, doe,
                  (doe - doe \div 1460 + doe \div 36524 - doe \div 146096)
                  \div 365)
        OfEra(zz, era) == OfDoe(era, zz - era * 146097)
        OfShifted(zz) == OfEra(zz, zz \div 146097)
    IN  OfShifted(z + 719468)

\* new Date(dateString): the day number of the date
ParseDate(date) == DaysFromCivil(date.y, date.m, date.d)

\* new Date(dateString).getTime(), in ticks
DateTime(date) == ParseDate(date) * TicksPerDay

\* date.setMonth(monthIndex) on a Date holding day number z: the month index
\* (0-based, any integer) is normalised into the year, and a day of month
\* past the end of the target month overflows into the following month
SetMonth(z, monthIndex) ==
    LET At(c) == DaysFromCivil(c.y + (monthIndex \div 12),
                               (monthIndex % 12) + 1, 1) + c.d - 1
    IN  At(CivilFromDays(z))

\* date.setFullYear(year)
SetFullYear(z, year) ==
    LET At(c) == DaysFromCivil(year, c.m, 1) + c.d - 1
    IN  At(CivilFromDays(z))

\* date.toISOString().split("T")[0]
ToISODate(z) == CivilFromDays(z)

-----------------------------------------------------------------------------
(* src/utils/dateUtils.ts *)

GetMonth(z) == CivilFromDays(z).m - 1
GetFullYear(z) == CivilFromDays(z).y
GetDate(z) == CivilFromDays(z).d

\* the offsets of the browser's local time from UTC, in ticks: a zone behind
\* UTC, UTC itself, a zone ahead of UTC
TimezoneOffsets == {-1, 0, 1}

\* an absent or empty date string
NoDate == [none |-> TRUE]

\* calculateEndDate in a browser whose zone is tz ticks from UTC: the
\* string is parsed as UTC midnight, setMonth / setFullYear act on the
\* local calendar fields, and toISOString formats the instant in UTC
calculateEndDate(startDate, type, tz) ==
    LET Shifted(local, day) ==
            ToISODate((day * TicksPerDay + (local % TicksPerDay) - tz)
                      \div TicksPerDay)
        Moved(local, day) ==
            IF type = "monthly"
            THEN Shifted(local, SetMonth(day, GetMonth(day) + 1))
            ELSE IF type = "yearly"
            THEN Shifted(local, SetFullYear(day, GetFullYear(day) + 1))
            ELSE Shifted(local, day)
        Local(local) == Moved(local, local \div TicksPerDay)
    IN  IF type = "custom" \/ startDate = NoDate THEN NoDate
        ELSE Local(DateTime(startDate) + tz)

\* isContractExpired: new Date(contractEndDate) < new Date()
isContractExpired(contractEndDate) == DateTime(contractEndDate) < now

\* getDaysUntilDue: Math.ceil((due - today) / one day)
getDaysUntilDue(endDate) == CeilDiv(DateTime(endDate) - now, TicksPerDay)

\* getDaysBetween
getDaysBetween(startDate, endDate) ==
    CeilDiv(DateTime(endDate) - DateTime(startDate), TicksPerDay)

\* getMonthsBetween: calendar month difference, rounded up on extra days,
\* at least one month
getMonthsBetween(startDate, endDate) ==
    LET Rounded(months, dayDiff) ==
            Max(1, IF dayDiff > 0 THEN months + 1 ELSE months)
        \* start, end: the civil fields of the two Dates (m is getMonth() + 1)
        Between(start, end) ==
            Rounded((end.y - start.y) * 12 + (end.m - start.m),
                    end.d - start.d)
    IN  Between(CivilFromDays(ParseDate(startDate)),
                CivilFromDays(ParseDate(endDate)))

\* dateUtils.calculateTotalRent: by days for a custom contract with a daily
\* rate, by (rounded-up) months otherwise
calculateTotalRent(startDate, endDate, monthlyRate, dailyRate, contractType) ==
    IF contractType = "custom" /\ Truthy(dailyRate)
    THEN getDaysBetween(startDate, endDate) * dailyRate
    ELSE getMonthsBetween(startDate, endDate) * monthlyRate

\* calculateAdditionalRent: the rent of the extension [currentEnd, newEnd]
calculateAdditionalRent(currentEndDate, newEndDate, monthlyRate, dailyRate, contractType) ==
    calculateTotalRent(currentEndDate, newEndDate, monthlyRate, dailyRate,
                       contractType)

-----------------------------------------------------------------------------
(* src/utils/paymentUtils.ts; a Room is                                     *)
(*   [id, price, dailyRate, status, renter], renter = NoRenter or           *)
(*   [rentStartDate, contractEndDate, amountPaid, totalRent, contractType]  *)

NoRenter == [none |-> TRUE]

\* the fullMonths and remainingDays that calculateTotalRentFromDates
\* computes for the span before pricing them
fullMonthsAndRemainingDays(startDate, endDate) ==
    LET Remaining(end, fullMonths, tempDate) ==
            [fullMonths |-> fullMonths,
             remainingDays |->
                 CeilDiv((end - tempDate) * TicksPerDay, TicksPerDay)]
        \* if (tempDate > end) { fullMonths--; tempDate one month back }
        Adjusted(end, fullMonths, tempDate) ==
            IF tempDate > end
            THEN Remaining(end, fullMonths - 1,
                           SetMonth(tempDate, GetMonth(tempDate) - 1))
            ELSE Remaining(end, fullMonths, tempDate)
        FullMonths(start, end, fullMonths) ==
            Adjusted(end, fullMonths,
                     SetMonth(start, GetMonth(start) + fullMonths))
        Span(start, end) ==
            FullMonths(start, end,
                       (GetFullYear(end) - GetFullYear(start)) * 12
                       + (GetMonth(end) - GetMonth(start)))
    IN  Span(ParseDate(startDate), ParseDate(endDate))

\* calculateTotalRentFromDates: full months x monthly rent + remaining days
\* x daily rate, clamped at 0
calculateTotalRentFromDates(startDate, endDate, monthlyRent) ==
    LET Total(span) ==
            Max(span.fullMonths * monthlyRent
                + span.remainingDays * RoundDiv(monthlyRent, 30), 0)
    IN  Total(fullMonthsAndRemainingDays(startDate, endDate))

getDailyRate(room) == RoundDiv(room.price, 30)

\* getTotalRent: computed from the contract dates, not from a stored value
getTotalRent(room) ==
    IF room.renter = NoRenter THEN room.price
    ELSE calculateTotalRentFromDates(room.renter.rentStartDate,
                                     room.renter.contractEndDate, room.price)

isPastDue(room) ==
    IF room.renter = NoRenter THEN FALSE
    ELSE room.renter.amountPaid < getTotalRent(room)

\* mutant: the balance without the clamp at 0
calculateBalanceNoClamp(room) ==
    IF room.renter = NoRenter THEN 0
    ELSE getTotalRent(room) - room.renter.amountPaid

calculateBalance(room) ==
    IF room.renter = NoRenter THEN 0
    ELSE Max(0, getTotalRent(room) - room.renter.amountPaid)

\* mutant: the first overdue day is not counted
getDaysOverdueExclusive(contractEndDate) ==
    LET daysUntilDue == getDaysUntilDue(contractEndDate)
    IN  IF daysUntilDue < -1 THEN -daysUntilDue - 1 ELSE 0

getDaysOverdue(contractEndDate) ==
    LET daysUntilDue == getDaysUntilDue(contractEndDate)
    IN  IF daysUntilDue < 0 THEN -daysUntilDue ELSE 0

\* mutant: the late fee is charged on a settled contract too
calculateLateFeeIgnoringBalance(room) ==
    IF room.renter = NoRenter THEN 0
    ELSE IF ~isContractExpired(room.renter.contractEndDate) THEN 0
         ELSE getDaysOverdue(room.renter.contractEndDate) * getDailyRate(room)

\* mutant: the flat-rate late fee, 10% of the balance
calculateLateFeeFlat(room) ==
    IF room.renter = NoRenter THEN 0
    ELSE LET balance == calculateBalance(room)
             expired == isContractExpired(room.renter.contractEndDate)
         IN  IF ~expired \/ balance <= 0 THEN 0
             ELSE RoundDiv(balance, 10)

calculateLateFee(room) ==
    IF room.renter = NoRenter THEN 0
    ELSE LET balance == calculateBalance(room)
             expired == isContractExpired(room.renter.contractEndDate)
         IN  IF ~expired \/ balance <= 0 THEN 0
             ELSE getDaysOverdue(room.renter.contractEndDate)
                  * getDailyRate(room)

\* mutant: the total due without the late fee
calculateTotalDueBalanceOnly(room) == calculateBalance(room)

calculateTotalDue(room) == calculateBalance(room) + calculateLateFee(room)

\* mutant: the percentage capped at 100
getPaymentPercentageCapped(amountPaid, totalAmount) ==
    IF totalAmount <= 0 THEN 100
    ELSE IF RoundDiv(amountPaid * 100, totalAmount) > 100 THEN 100
    ELSE RoundDiv(amountPaid * 100, totalAmount)

\* getPaymentPercentage: Math.round(amountPaid / totalAmount * 100), and 100
\* for a total that is not positive
getPaymentPercentage(amountPaid, totalAmount) ==
    IF totalAmount <= 0 THEN 100
    ELSE RoundDiv(amountPaid * 100, totalAmount)

\* mutant: an exactly settled total is not yet paid
getPaymentStatusStrict(amountPaid, totalAmount) ==
    IF amountPaid > totalAmount THEN "paid"
    ELSE IF amountPaid > 0 THEN "partial"
    ELSE "unpaid"

getPaymentStatus(amountPaid, totalAmount) ==
    IF amountPaid >= totalAmount THEN "paid"
    ELSE IF amountPaid > 0 THEN "partial"
    ELSE "unpaid"

-----------------------------------------------------------------------------
(* The relational store.                                                    *)
(*   rooms[r]     = [base_price, daily_rate, status]                        *)
(*   contracts[c] = [room_id, start_date, end_date, monthly_rent,           *)
(*                   total_rent, status]                                    *)
(*   payments[i]  = [contract_id, amount, payment_method]                   *)

RECURSIVE SumAmounts(_, _)
\* payments.reduce((sum, p) => sum + p.amount, 0) over the rows of contract c
SumAmounts(rows, c) ==
    IF rows = <<>> THEN 0
    ELSE (IF Head(rows).contract_id = c THEN Head(rows).amount ELSE 0)
         + SumAmounts(Tail(rows), c)

TotalPaid(c) == SumAmounts(payments, c)

-----------------------------------------------------------------------------
(* src/app/api/contracts/route.ts *)

\* calculateTotalRent of the contracts route
contractsCalculateTotalRent(startDate, endDate, monthlyRent) ==
    LET Total(fullMonths, remainingDays) ==
            Max(fullMonths * monthlyRent
                + remainingDays * RoundDiv(monthlyRent, 30), 0)
        Remaining(end, fullMonths, tempDate) ==
            Total(fullMonths,
                  CeilDiv((end - tempDate) * TicksPerDay, TicksPerDay))
        \* if (tempDate > end) { fullMonths--; tempDate one month back }
        Adjusted(end, fullMonths, tempDate) ==
            IF tempDate > end
            THEN Remaining(end, fullMonths - 1,
                           SetMonth(tempDate, GetMonth(tempDate) - 1))
            ELSE Remaining(end, fullMonths, tempDate)
        FullMonths(start, end, fullMonths) ==
            Adjusted(end, fullMonths,
                     SetMonth(start, GetMonth(start) + fullMonths))
        Span(start, end) ==
            FullMonths(start, end,
                       (GetFullYear(end) - GetFullYear(start)) * 12
                       + (GetMonth(end) - GetMonth(start)))
    IN  Span(ParseDate(startDate), ParseDate(endDate))

\* the callback of contracts.map in GET /api/contracts: the row built for
\* the contract record with id c from the payment rows, at instant t
enrichContract(c, record, rows, t) ==
    LET Row(contract, totalPaid, totalRent, remaining) ==
            [id |-> c, room_id |-> contract.room_id,
             start_date |-> contract.start_date,
             end_date |-> contract.end_date,
             monthly_rent |-> contract.monthly_rent,
             status |-> contract.status,
             total_rent |-> totalRent, total_paid |-> totalPaid,
             balance |-> remaining,
             payment_status |->
                 IF totalPaid >= totalRent THEN "paid"
                 ELSE IF totalPaid > 0 THEN "partial" ELSE "unpaid",
             is_overdue |-> DateTime(contract.end_date) < t /\ remaining > 0]
        Computed(contract, totalPaid, totalRent) ==
            Row(contract, totalPaid, totalRent, Max(0, totalRent - totalPaid))
    IN  Computed(record, SumAmounts(rows, c),
                 contractsCalculateTotalRent(record.start_date,
                     record.end_date, record.monthly_rent))

\* GET /api/contracts: the row returned for contract c, with the payment
\* figures computed from the payments table
contractsGETRow(c) == enrichContract(c, contracts[c], payments, now)

\* mutant: the 'unpaid' filter leaves the part-paid contracts out
contractsGETUnpaidOnly(status, paymentStatus) ==
    LET Kept(row) ==
            CASE paymentStatus = "overdue" -> row.is_overdue
              [] paymentStatus = "unpaid" -> row.payment_status = "unpaid"
              [] paymentStatus = "paid" -> row.payment_status = "paid"
              [] OTHER -> TRUE
        enriched == [c \in {x \in DOMAIN contracts :
                              contracts[x].status = status}
                       |-> contractsGETRow(c)]
    IN  [c \in {x \in DOMAIN enriched : Kept(enriched[x])} |-> enriched[c]]

\* GET /api/contracts?status=..&paymentStatus=..: contract id -> row
\* (paymentStatus "": the parameter is absent, no payment filter)
contractsGET(status, paymentStatus) ==
    LET Kept(row) ==
            CASE paymentStatus = "overdue" -> row.is_overdue
              [] paymentStatus = "unpaid" ->
                   row.payment_status \in {"unpaid", "partial"}
              [] paymentStatus = "paid" -> row.payment_status = "paid"
              [] OTHER -> TRUE
        enriched == [c \in {x \in DOMAIN contracts :
                              contracts[x].status = status}
                       |-> contractsGETRow(c)]
    IN  [c \in {x \in DOMAIN enriched : Kept(enriched[x])} |-> enriched[c]]

-----------------------------------------------------------------------------
(* src/app/api/rooms/route.ts *)

\* calculateTotalRent of the earlier contracts route: the contract is
\* classified by its day span (storedTotalRent NULL: none stored)
calculateTotalRentByDuration(startDate, endDate, monthlyRent, storedTotalRent, dailyRate) ==
    LET Classified(diffDays, calculatedDailyRate) ==
            IF diffDays = 365 \/ diffDays = 366 THEN monthlyRent * 12
            ELSE IF diffDays >= 28 /\ diffDays <= 31 THEN monthlyRent
            ELSE IF diffDays < 28 THEN diffDays * calculatedDailyRate
            ELSE (diffDays \div 30) * monthlyRent
                 + (diffDays % 30) * calculatedDailyRate
    IN  IF Truthy(storedTotalRent) THEN storedTotalRent
        ELSE Classified(CeilDiv(DateTime(endDate) - DateTime(startDate),
                                TicksPerDay),
                        IF Truthy(dailyRate) THEN dailyRate
                        ELSE RoundDiv(monthlyRent, 30))

NoContract == [none |-> TRUE]

\* calculateTotalRent of the rooms route
roomsCalculateTotalRent(startDate, endDate, monthlyRent) ==
    LET Total(fullMonths, remainingDays) ==
            Max(fullMonths * monthlyRent
                + remainingDays * RoundDiv(monthlyRent, 30), 0)
        Remaining(end, fullMonths, tempDate) ==
            Total(fullMonths,
                  CeilDiv((end - tempDate) * TicksPerDay, TicksPerDay))
        \* if (tempDate > end) { fullMonths--; tempDate one month back }
        Adjusted(end, fullMonths, tempDate) ==
            IF tempDate > end
            THEN Remaining(end, fullMonths - 1,
                           SetMonth(tempDate, GetMonth(tempDate) - 1))
            ELSE Remaining(end, fullMonths, tempDate)
        FullMonths(start, end, fullMonths) ==
            Adjusted(end, fullMonths,
                     SetMonth(start, GetMonth(start) + fullMonths))
        Span(start, end) ==
            FullMonths(start, end,
                       (GetFullYear(end) - GetFullYear(start)) * 12
                       + (GetMonth(end) - GetMonth(start)))
    IN  Span(ParseDate(startDate), ParseDate(endDate))

\* GET /api/rooms?includeContract=true: the entry returned for room r; the
\* active contract is read with .single(), which yields no row unless exactly
\* one contract of the room is active
roomsGETRow(r) ==
    LET room   == rooms[r]
        active == {c \in DOMAIN contracts :
                     contracts[c].room_id = r /\ contracts[c].status = "active"}
        Row(c, contract, totalPaid, contractTotal, balance) ==
            [id |-> c, room_id |-> r,
             start_date |-> contract.start_date,
             end_date |-> contract.end_date,
             monthly_rent |-> contract.monthly_rent,
             status |-> contract.status,
             total_rent |-> contractTotal, total_paid |-> totalPaid,
             balance |-> Max(0, balance),
             payment_status |->
                 IF totalPaid >= contractTotal THEN "paid"
                 ELSE IF totalPaid > 0 THEN "partial" ELSE "unpaid",
             is_overdue |-> DateTime(contract.end_date) < now /\ balance > 0]
        Computed(c, contract, totalPaid, contractTotal) ==
            Row(c, contract, totalPaid, contractTotal,
                contractTotal - totalPaid)
        Contract(c) ==
            Computed(c, contracts[c], TotalPaid(c),
                     roomsCalculateTotalRent(contracts[c].start_date,
                         contracts[c].end_date, contracts[c].monthly_rent))
    IN  [id |-> r, base_price |-> room.base_price,
         daily_rate |-> room.daily_rate, status |-> room.status,
         current_contract |->
             IF Cardinality(active) # 1 THEN NoContract
             ELSE Contract(CHOOSE x \in active : TRUE)]

roomsGET == [r \in DOMAIN rooms |-> roomsGETRow(r)]

-----------------------------------------------------------------------------
(* The page component (App) *)

\* total rent and contract type by classification of the day span; a truthy
\* total_rent of the API row replaces the computed total
transformRoomData(apiRoom) ==
    LET Renter(cc, diffDays, dailyRate) ==
            [rentStartDate |-> cc.start_date,
             contractEndDate |-> cc.end_date,
             amountPaid |-> IF Truthy(cc.total_paid) THEN cc.total_paid ELSE 0,
             totalRent |->
                 IF Truthy(cc.total_rent) THEN cc.total_rent
                 ELSE IF diffDays = 365 \/ diffDays = 366
                      THEN apiRoom.base_price * 12
                 ELSE IF diffDays >= 28 /\ diffDays <= 31
                      THEN apiRoom.base_price
                 ELSE IF diffDays < 28 THEN diffDays * dailyRate
                 ELSE (diffDays \div 30) * apiRoom.base_price
                      + (diffDays % 30) * dailyRate,
             contractType |->
                 IF diffDays = 365 \/ diffDays = 366 THEN "yearly"
                 ELSE IF diffDays >= 28 /\ diffDays <= 31 THEN "monthly"
                 ELSE "custom"]
        Contract(cc) ==
            Renter(cc,
                   CeilDiv(DateTime(cc.end_date) - DateTime(cc.start_date),
                           TicksPerDay),
                   IF Truthy(apiRoom.daily_rate) THEN apiRoom.daily_rate
                   ELSE RoundDiv(apiRoom.base_price, 30))
    IN  [id |-> apiRoom.id, price |-> apiRoom.base_price,
         dailyRate |-> apiRoom.daily_rate, status |-> apiRoom.status,
         renter |-> IF apiRoom.current_contract = NoContract THEN NoRenter
                    ELSE Contract(apiRoom.current_contract)]

\* getFilteredTenants: the ids of the rooms (of the page's rooms) listed in
\* the tenant view selectedView
getFilteredTenants(pageRooms, selectedView) ==
    LET occupiedRooms == {r \in DOMAIN pageRooms :
                             pageRooms[r].status = "occupied"}
    IN  CASE selectedView = "fully-paid" ->
               {r \in occupiedRooms :
                   /\ pageRooms[r].renter # NoRenter
                   /\ pageRooms[r].renter.amountPaid >= pageRooms[r].price}
          [] selectedView = "not-fully-paid" ->
               {r \in occupiedRooms :
                   /\ pageRooms[r].renter # NoRenter
                   /\ pageRooms[r].renter.amountPaid < pageRooms[r].price}
          [] OTHER -> occupiedRooms

\* const rooms = apiRooms.map(transformRoomData), for a response api
Rooms(api) == [r \in DOMAIN api |-> transformRoomData(api[r])]

-----------------------------------------------------------------------------
(* Request handlers that write the store *)

\* mutant: the amount is not checked for being positive
paymentsPOSTBodyAnyAmount(contract_id, amount, payment_date, payment_method) ==
    IF contract_id = NULL \/ ~Truthy(amount) \/ payment_date = NoDate
    THEN UNCHANGED payments
    ELSE payments' = Append(payments,
                            [contract_id |-> contract_id, amount |-> amount,
                             payment_method |-> IF payment_method = ""
                                                THEN "cash" ELSE payment_method])

\* POST /api/payments: 400 without contract_id, amount or payment_date or
\* with amount <= 0 (nothing inserted); otherwise one row is inserted, with
\* payment_method "cash" when the body has none (payment_method "": absent;
\* the row's payment_date and notes are not kept in the model)
paymentsPOSTBody(contract_id, amount, payment_date, payment_method) ==
    IF contract_id = NULL \/ ~Truthy(amount) \/ payment_date = NoDate
       \/ amount <= 0
    THEN UNCHANGED payments
    ELSE payments' = Append(payments,
                            [contract_id |-> contract_id, amount |-> amount,
                             payment_method |-> IF payment_method = ""
                                                THEN "cash" ELSE payment_method])

\* createPayment as the page calls it: dated today, paid in cash
paymentsPOST(contract_id, amount) ==
    paymentsPOSTBody(contract_id, amount, ToISODate(now \div TicksPerDay),
                     "cash")

\* the id the store gives an inserted contract: one that no contract row
\* and no payment row carries (the smallest such number stands for it)
FreshContractId ==
    LET used == DOMAIN contracts
                  \cup {payments[i].contract_id : i \in DOMAIN payments}
    IN  CHOOSE n \in 1..(Cardinality(used) + 1) :
            n \notin used /\ \A m \in 1..(n - 1) : m \in used

\* POST /api/contracts: 400 (nothing written) unless room_id, start_date,
\* end_date and monthly_rent are given and monthly_rent > 0; otherwise the
\* contract is inserted under a fresh id, without total_rent, and its room
\* is marked occupied
contractsPOST(room_id, start_date, end_date, monthly_rent, status) ==
    IF room_id = NULL \/ ~Truthy(monthly_rent) \/ monthly_rent <= 0
    THEN UNCHANGED <<contracts, rooms>>
    ELSE /\ contracts' =
              [c \in DOMAIN contracts \cup {FreshContractId} |->
                  IF c \in DOMAIN contracts THEN contracts[c]
                  ELSE [room_id |-> room_id, start_date |-> start_date,
                        end_date |-> end_date, monthly_rent |-> monthly_rent,
                        total_rent |-> NULL, status |-> status]]
         /\ rooms' = [rooms EXCEPT ![room_id].status = "occupied"]

\* DELETE /api/contracts/[id]: the contract row is deleted and its room is
\* set to vacant; payment rows are not touched
contractsDELETE(id) ==
    /\ contracts' = [c \in DOMAIN contracts \ {id} |-> contracts[c]]
    /\ rooms' = [rooms EXCEPT ![contracts[id].room_id].status = "vacant"]
    /\ UNCHANGED payments

\* mutant: the room is deleted whatever contracts it has
roomsDELETEUnchecked(id) ==
    LET contractIds == {c \in DOMAIN contracts : contracts[c].room_id = id}
        Kept(p) == p.contract_id \notin contractIds
    IN  /\ payments' = SelectSeq(payments, Kept)
        /\ contracts' = [c \in DOMAIN contracts \ contractIds |-> contracts[c]]
        /\ rooms' = [r \in DOMAIN rooms \ {id} |-> rooms[r]]

\* DELETE /api/rooms/[id]: 400 (nothing deleted) while the room has an
\* active contract; otherwise the payments of the room's contracts, those
\* contracts and the room are deleted, in that order
roomsDELETE(id) ==
    LET contractIds == {c \in DOMAIN contracts : contracts[c].room_id = id}
        Kept(p) == p.contract_id \notin contractIds
    IN  IF \E c \in contractIds : contracts[c].status = "active"
        THEN UNCHANGED <<rooms, contracts, payments>>
        ELSE /\ payments' = SelectSeq(payments, Kept)
             /\ contracts' = [c \in DOMAIN contracts \ contractIds |-> contracts[c]]
             /\ rooms' = [r \in DOMAIN rooms \ {id} |-> rooms[r]]

\* mutant: the room keeps its status when the contract is closed
contractsPATCHKeepingRoom(id, end_date, status, total_rent) ==
    LET old == contracts[id]
        new == [old EXCEPT
                  !.end_date = IF end_date = NoDate THEN @ ELSE end_date,
                  !.status   = IF status = "" THEN @ ELSE status]
    IN  /\ contracts' = [contracts EXCEPT ![id] = new]
        /\ UNCHANGED rooms

\* PATCH /api/contracts/[id]: only start_date, end_date, monthly_rent and
\* status of the body are written (an end_date absent from the body is
\* NoDate, an absent status ""); any other field of the body, total_rent
\* included, is dropped.
\* A terminated, completed or evicted contract vacates its room.
contractsPATCH(id, end_date, status, total_rent) ==
    LET old == contracts[id]
        new == [old EXCEPT
                  !.end_date = IF end_date = NoDate THEN @ ELSE end_date,
                  !.status   = IF status = "" THEN @ ELSE status]
    IN  /\ contracts' = [contracts EXCEPT ![id] = new]
        /\ IF status \in {"terminated", "completed", "evicted"}
           THEN rooms' = [rooms EXCEPT ![old.room_id].status = "vacant"]
           ELSE UNCHANGED rooms

-----------------------------------------------------------------------------
(* Inputs of the calculator specification *)

Date(y, m, d) == [y |-> y, m |-> m, d |-> d]

ClockBaseDate == Date(2024, 2, 20)
ClockStart == DateTime(ClockBaseDate)
MaxNow == ClockStart + MaxClockDays * TicksPerDay

CalcPrices == {3000, 14}
CalcDailyRates == {NULL, 150}
CalcStartDates == {Date(2024, 1, 1), Date(2024, 1, 30), Date(2024, 1, 31),
                   Date(2023, 2, 21)}
CalcEndDates == {Date(2024, 1, 1), Date(2024, 1, 11), Date(2024, 2, 1),
                 Date(2024, 2, 21), Date(2024, 3, 10), Date(2023, 12, 25)}
CalcStoredTotals == {NULL, 9000}
CalcAmounts == {0, 2000, 3000}
ContractTypes == {"monthly", "yearly", "custom"}

EmptyMap == [x \in {} |-> NULL]
NoView == [kind |-> "none"]
NoConfirm == [open |-> FALSE]

\* room 1 occupied under one active contract, room 2 vacant, nothing paid
\* yet; the page is not mounted
CalcInit ==
    /\ \E price \in CalcPrices, daily \in CalcDailyRates,
          start \in CalcStartDates, end \in CalcEndDates,
          stored \in CalcStoredTotals :
          \* the small price only exercises the rounding of the daily rate,
          \* the start date of 2023 only the contract of one year, the
          \* start on January 30 only the stay of two days into February
          /\ price < 30
                => (daily = NULL /\ stored = NULL /\ start = Date(2024, 1, 1))
          /\ stored # NULL => daily = NULL
          /\ start.y < end.y => end = [start EXCEPT !.y = @ + 1]
          /\ start = Date(2024, 1, 30)
                => (/\ price = 3000 /\ daily = NULL /\ stored = NULL
                    /\ end = Date(2024, 2, 1))
          /\ rooms = [r \in {1, 2} |->
                 [base_price |-> price, daily_rate |-> daily,
                  status |-> IF r = 1 THEN "occupied" ELSE "vacant"]]
          /\ contracts = [c \in {1} |->
                 [room_id |-> 1, start_date |-> start, end_date |-> end,
                  monthly_rent |-> price, total_rent |-> stored,
                  status |-> "active"]]
    /\ payments = <<>>
    /\ now = ClockStart
    /\ apiRooms = EmptyMap
    /\ dueContracts = EmptyMap
    /\ activeContracts = EmptyMap
    /\ pending = {}
    /\ loading = FALSE
    /\ roomsRequests = <<>>
    /\ view = NoView
    /\ confirmDialog = NoConfirm

\* the clock advances
Tick ==
    /\ now < MaxNow
    /\ now' = now + 1
    /\ UNCHANGED <<dbVars, clientVars>>

\* a POST /api/payments request
CalcPostPayment ==
    /\ Len(payments) < MaxPayments
    /\ \E c \in DOMAIN contracts, amount \in CalcAmounts :
          /\ paymentsPOST(c, amount)
    /\ UNCHANGED <<rooms, contracts, now, clientVars>>

CalcNext == Tick \/ CalcPostPayment

SpecCalc == CalcInit /\ [][CalcNext]_vars

-----------------------------------------------------------------------------
(* The API alone: the store driven by requests to the route handlers, as   *)
(* any client of the deployment can send them.                             *)

MaxContracts == 2
MaxApiPayments == 1
MaxStorePayments == 2
ContractStatuses == {"active", "completed", "evicted", "terminated"}
ApiEndDates == {Date(2024, 3, 31)}
ApiTotals == {NULL, 7900}
ApiAmounts == {NULL, 0, 2000}
ApiPaymentDates == {NoDate, Date(2024, 3, 4)}
ApiClockStart == DateTime(Date(2024, 3, 4))

\* room 1 let from 2024-01-12 to 2024-03-02 under contract 1, room 2 vacant,
\* nothing paid; no page is open
ApiInit ==
    /\ rooms = [r \in {1, 2} |->
                  [base_price |-> 3000, daily_rate |-> NULL,
                   status |-> IF r = 1 THEN "occupied" ELSE "vacant"]]
    /\ contracts = [c \in {1} |->
                      [room_id |-> 1, start_date |-> Date(2024, 1, 12),
                       end_date |-> Date(2024, 3, 2), monthly_rent |-> 3000,
                       total_rent |-> NULL, status |-> "active"]]
    /\ payments = <<>>
    /\ now = ApiClockStart
    /\ apiRooms = EmptyMap
    /\ dueContracts = EmptyMap
    /\ activeContracts = EmptyMap
    /\ pending = {}
    /\ loading = FALSE
    /\ roomsRequests = <<>>
    /\ view = NoView
    /\ confirmDialog = NoConfirm

\* a PATCH /api/contracts/[id] request with one of the two bodies the client
\* sends: {end_date, total_rent} (a renewal) or {status} (any status value)
ApiPatchContract ==
    /\ \E c \in DOMAIN contracts :
          \/ \E end_date \in ApiEndDates, total_rent \in ApiTotals :
                contractsPATCH(c, end_date, "", total_rent)
          \/ \E status \in ContractStatuses :
                contractsPATCH(c, NoDate, status, NULL)
    /\ UNCHANGED <<payments, now, clientVars>>

\* a POST /api/contracts request, as occupyRoom sends it for a room
ApiPostContract ==
    /\ Cardinality(DOMAIN contracts) < MaxContracts
    /\ \E r \in DOMAIN rooms :
          contractsPOST(r, Date(2024, 3, 2), Date(2024, 4, 2),
                        rooms[r].base_price, "active")
    /\ UNCHANGED <<payments, now, clientVars>>

\* a POST /api/payments request as createPayment sends it for a contract
ApiPostPayment ==
    /\ Len(payments) < MaxApiPayments
    /\ \E c \in DOMAIN contracts, amount \in ApiAmounts \ {NULL} :
          paymentsPOST(c, amount)
    /\ UNCHANGED <<rooms, contracts, now, clientVars>>

ApiNext == ApiPatchContract \/ ApiPostContract \/ ApiPostPayment

SpecApi == ApiInit /\ [][ApiNext]_vars

-----------------------------------------------------------------------------
(* The API with deletion: contracts are created, closed or reopened by a   *)
(* status update, and deleted; rooms are deleted.                          *)

\* a PATCH /api/contracts/[id] request with body {status}
ApiPatchStatus ==
    /\ \E c \in DOMAIN contracts, status \in ContractStatuses :
          contractsPATCH(c, NoDate, status, NULL)
    /\ UNCHANGED <<payments, now, clientVars>>

\* a DELETE /api/contracts/[id] request
ApiDeleteContract ==
    /\ \E c \in DOMAIN contracts : contractsDELETE(c)
    /\ UNCHANGED <<now, clientVars>>

\* a DELETE /api/rooms/[id] request
ApiDeleteRoom ==
    /\ \E r \in DOMAIN rooms : roomsDELETE(r)
    /\ UNCHANGED <<now, clientVars>>

\* a POST /api/payments request with any body: any of contract_id, amount
\* and payment_date may be missing, payment_method is left out
ApiPostPaymentRequest ==
    /\ Len(payments) < MaxStorePayments
    /\ \E c \in DOMAIN contracts \cup {NULL}, amount \in ApiAmounts,
          payment_date \in ApiPaymentDates :
          paymentsPOSTBody(c, amount, payment_date, "")
    /\ UNCHANGED <<rooms, contracts, now, clientVars>>

StoreNext ==
    \/ ApiPatchStatus
    \/ ApiPostContract
    \/ ApiPostPaymentRequest
    \/ ApiDeleteContract
    \/ ApiDeleteRoom

SpecStore == ApiInit /\ [][StoreNext]_vars

-----------------------------------------------------------------------------
(* The application: the store behind the API routes and one page (App)      *)
(* with its room dialogs, due list and add-payment dialog.                  *)
(*   view          = NoView or [kind |-> "due", contract |-> row]: the      *)
(*                   DueList dialog with its selectedContract               *)
(*   confirmDialog = NoConfirm or the ConfirmDialog state of the component  *)
(*                   that opened it (owner), with the values its onConfirm  *)
(*                   closure captured                                       *)

PayAmounts == {2000}
RenewEndDates == {Date(2024, 3, 31)}
RenewContractTypes == {"monthly"}
SysClockStart == DateTime(Date(2024, 3, 2))
InitPrices == {3000}
InitStoredTotals == {NULL, 9000}

\* room 1 is let from 2024-01-12 to 2024-03-02, nothing is paid; the page is
\* opened at the start of the day the contract ends and has just mounted:
\* every hook has issued its first fetch
Init ==
    /\ \E price \in InitPrices, stored \in InitStoredTotals :
          /\ rooms = [r \in {1} |-> [base_price |-> price, daily_rate |-> NULL,
                                     status |-> "occupied"]]
          /\ contracts = [c \in {1} |->
                 [room_id |-> 1, start_date |-> Date(2024, 1, 12),
                  end_date |-> Date(2024, 3, 2), monthly_rent |-> price,
                  total_rent |-> stored, status |-> "active"]]
    /\ payments = <<>>
    /\ now = SysClockStart
    /\ apiRooms = EmptyMap
    /\ dueContracts = EmptyMap
    /\ activeContracts = EmptyMap
    /\ pending = {"rooms", "due", "active"}
    /\ loading = TRUE
    /\ roomsRequests = <<>>
    /\ view = NoView
    /\ confirmDialog = NoConfirm

\* the response of a fetch arrives: setRooms / setContracts
FetchDone ==
    /\ \E k \in pending :
          /\ pending' = pending \ {k}
          /\ loading' = IF k = "rooms" THEN FALSE ELSE loading
          /\ apiRooms' = IF k = "rooms" THEN roomsGET ELSE apiRooms
          /\ dueContracts' = IF k = "due" THEN contractsGET("active", "unpaid")
                             ELSE dueContracts
          /\ activeContracts' = IF k = "active" THEN contractsGET("active", "")
                                ELSE activeContracts
    /\ UNCHANGED <<dbVars, now, roomsRequests, view, confirmDialog>>

\* the room dialog (RoomCard, RoomTable) is usable on an occupied room
RoomDialogUsable(r) ==
    /\ ~loading
    /\ ~confirmDialog.open
    /\ view = NoView
    /\ r \in DOMAIN apiRooms
    /\ Rooms(apiRooms)[r].status # "vacant"
    /\ Rooms(apiRooms)[r].renter # NoRenter

\* PaymentForm.handleSubmit, then handleUpdatePayment: an amount above
\* maxAmount = calculateBalance(room) is refused with a form error; otherwise
\* the confirm dialog opens
RoomPaymentSubmit ==
    /\ \E r \in DOMAIN apiRooms, amount \in PayAmounts :
          /\ RoomDialogUsable(r)
          /\ isPastDue(Rooms(apiRooms)[r])
          /\ amount > 0
          /\ ~(amount > calculateBalance(Rooms(apiRooms)[r]))
          /\ confirmDialog' = [open |-> TRUE, owner |-> "room", kind |-> "payment", roomId |-> r,
                               amount |-> amount, full |-> FALSE]
    /\ UNCHANGED <<dbVars, now, apiRooms, dueContracts, activeContracts,
                   pending, loading, roomsRequests, view>>

\* handleMarkFullyPaid of RoomCard and RoomTable: the amount, balance plus
\* late fee, is computed when the button is pressed
RoomMarkFullyPaid ==
    /\ \E r \in DOMAIN apiRooms :
          /\ RoomDialogUsable(r)
          /\ isPastDue(Rooms(apiRooms)[r])
          /\ LET room == Rooms(apiRooms)[r]
                 remainingBalance == calculateBalance(room)
                 lateFee == calculateLateFee(room)
             IN  /\ ~(remainingBalance <= 0)
                 /\ confirmDialog' =
                      [open |-> TRUE, owner |-> "room", kind |-> "payment", roomId |-> r,
                       amount |-> remainingBalance + lateFee, full |-> TRUE]
    /\ UNCHANGED <<dbVars, now, apiRooms, dueContracts, activeContracts,
                   pending, loading, roomsRequests, view>>

\* DueList.handleRowClick: the row is kept as selectedContract
DueRowClick ==
    /\ ~loading
    /\ ~confirmDialog.open
    /\ view = NoView
    /\ \E c \in DOMAIN dueContracts :
          view' = [kind |-> "due", contract |-> dueContracts[c]]
    /\ UNCHANGED <<dbVars, now, apiRooms, dueContracts, activeContracts,
                   pending, loading, roomsRequests, confirmDialog>>

\* DueList.handleCloseDialog
DueClose ==
    /\ ~confirmDialog.open
    /\ view # NoView
    /\ view' = NoView
    /\ UNCHANGED <<dbVars, now, apiRooms, dueContracts, activeContracts,
                   pending, loading, roomsRequests, confirmDialog>>

\* DueList.handleSubmitPayment: an amount above selectedContract.balance is
\* refused; otherwise the confirm dialog opens
DueSubmitPayment ==
    /\ ~loading
    /\ ~confirmDialog.open
    /\ view # NoView
    /\ \E amount \in PayAmounts :
          /\ amount > 0
          /\ ~(amount > view.contract.balance)
          /\ confirmDialog' = [open |-> TRUE, owner |-> "due", kind |-> "payment",
                               roomId |-> view.contract.room_id,
                               amount |-> amount, full |-> FALSE]
    /\ UNCHANGED <<dbVars, now, apiRooms, dueContracts, activeContracts,
                   pending, loading, roomsRequests, view>>

\* DueList.handleMarkFullyPaid: the amount is selectedContract.balance
DueMarkFullyPaid ==
    /\ ~loading
    /\ ~confirmDialog.open
    /\ view # NoView
    /\ ~(view.contract.balance <= 0)
    /\ confirmDialog' = [open |-> TRUE, owner |-> "due", kind |-> "payment",
                         roomId |-> view.contract.room_id,
                         amount |-> view.contract.balance, full |-> TRUE]
    /\ UNCHANGED <<dbVars, now, apiRooms, dueContracts, activeContracts,
                   pending, loading, roomsRequests, view>>

\* the confirm dialog is dismissed: onOpenChange keeps what the dialog
\* held, setConfirmDialog({ ...confirmDialog, open })
CancelConfirm ==
    /\ confirmDialog.open
    /\ confirmDialog' = [confirmDialog EXCEPT !.open = FALSE]
    /\ UNCHANGED <<dbVars, now, apiRooms, dueContracts, activeContracts,
                   pending, loading, roomsRequests, view>>

\* onConfirm of a payment, i.e. updateRoomPayment(roomId, amount): the payment
\* is posted against the current contract of the room as last fetched, then
\* rooms, payments and due contracts are fetched again
ConfirmPayment ==
    /\ confirmDialog.open
    /\ confirmDialog.kind = "payment"
    /\ Len(payments) < MaxSysPayments
    /\ LET room == apiRooms[confirmDialog.roomId]
       IN  IF room.current_contract = NoContract
           THEN UNCHANGED <<payments, pending, loading, roomsRequests>>
           ELSE /\ paymentsPOST(room.current_contract.id, confirmDialog.amount)
                /\ pending' = pending \cup {"rooms", "due"}
                /\ loading' = TRUE
                /\ UNCHANGED roomsRequests
    /\ confirmDialog' = NoConfirm
    /\ view' = NoView
    /\ UNCHANGED <<rooms, contracts, now, apiRooms, dueContracts,
                   activeContracts>>

\* AddPaymentDialog.getBalance
getBalance(contract) ==
    LET totalRent == IF Truthy(contract.total_rent) THEN contract.total_rent
                     ELSE contract.monthly_rent
        totalPaid == IF Truthy(contract.total_paid) THEN contract.total_paid
                     ELSE 0
    IN  Max(0, totalRent - totalPaid)

\* AddPaymentDialog: a contract with a balance is selected, an amount is
\* typed (capped at the balance shown) or "Pay Full Balance" fills it in, and
\* handleSubmit calls recordPaymentByContract, which posts the payment and
\* fetches rooms, payments, due and active contracts again
AddPaymentSubmit ==
    /\ ~loading
    /\ ~confirmDialog.open
    /\ view = NoView
    /\ Len(payments) < MaxSysPayments
    /\ \E c \in DOMAIN activeContracts :
          /\ getBalance(activeContracts[c]) > 0
          /\ \E amount \in PayAmounts \cup {getBalance(activeContracts[c])} :
                /\ amount <= getBalance(activeContracts[c])
                /\ paymentsPOST(c, amount)
    /\ pending' = pending \cup {"rooms", "due", "active"}
    /\ loading' = TRUE
    /\ UNCHANGED roomsRequests
    /\ UNCHANGED <<rooms, contracts, now, apiRooms, dueContracts,
                   activeContracts, view, confirmDialog>>

\* RenewalForm submit, then handleRenewContract: the form is shown on an
\* expired contract, starts at the contract end date, and proposes
\* additionalRent = calculateAdditionalRent(start, end, price, dailyRate, type)
RoomRenewalSubmit ==
    /\ \E r \in DOMAIN apiRooms, endDate \in RenewEndDates,
          contractType \in RenewContractTypes :
          /\ RoomDialogUsable(r)
          /\ LET room == Rooms(apiRooms)[r]
                 startDate == room.renter.contractEndDate
             IN  /\ isContractExpired(room.renter.contractEndDate)
                 /\ ParseDate(endDate) >= ParseDate(startDate)
                 /\ confirmDialog' =
                      [open |-> TRUE, owner |-> "room", kind |-> "renew", roomId |-> r,
                       endDate |-> endDate, contractType |-> contractType,
                       additionalRent |->
                         calculateAdditionalRent(startDate, endDate, room.price,
                             room.dailyRate, contractType)]
    /\ UNCHANGED <<dbVars, now, apiRooms, dueContracts, activeContracts,
                   pending, loading, roomsRequests, view>>

\* onConfirm of a renewal, i.e. renewContract(roomId, newEndDate, type,
\* additionalRent): PATCH {end_date, total_rent}, then the rooms are fetched
ConfirmRenew ==
    /\ confirmDialog.open
    /\ confirmDialog.kind = "renew"
    /\ LET room == apiRooms[confirmDialog.roomId]
       IN  IF room.current_contract = NoContract
           THEN UNCHANGED <<rooms, contracts, pending, loading, roomsRequests>>
           ELSE LET currentTotalRent ==
                        IF Truthy(room.current_contract.total_rent)
                        THEN room.current_contract.total_rent
                        ELSE room.base_price
                    newTotalRent ==
                        IF Truthy(confirmDialog.additionalRent)
                        THEN currentTotalRent + confirmDialog.additionalRent
                        ELSE currentTotalRent
                IN  /\ contractsPATCH(room.current_contract.id,
                                      confirmDialog.endDate, "", newTotalRent)
                    /\ pending' = pending \cup {"rooms"}
                    /\ loading' = TRUE
                    /\ UNCHANGED roomsRequests
    /\ confirmDialog' = NoConfirm
    /\ view' = NoView
    /\ UNCHANGED <<payments, now, apiRooms, dueContracts, activeContracts>>

Next ==
    \/ Tick
    \/ FetchDone
    \/ RoomPaymentSubmit
    \/ RoomMarkFullyPaid
    \/ DueRowClick
    \/ DueClose
    \/ DueSubmitPayment
    \/ DueMarkFullyPaid
    \/ CancelConfirm
    \/ ConfirmPayment
    \/ AddPaymentSubmit
    \/ RoomRenewalSubmit
    \/ ConfirmRenew

Spec == Init /\ [][Next]_vars

-----------------------------------------------------------------------------
(* Moving in: the page with its new-tenant form on vacant rooms. A request  *)
(* of occupyRoom may fail (the route answers 500 when the insert fails, the *)
(* hook throws on every response that is not ok).                           *)

OccupyStartDates == {Date(2024, 3, 4)}
OccupyEndDates == {Date(2024, 4, 4), Date(2025, 3, 4)}
OccupyAmounts == {0, 2000}

\* two vacant rooms, no contract; the page has just mounted
OccupyInit ==
    /\ rooms = [r \in {1, 2} |->
                  [base_price |-> 3000, daily_rate |-> NULL,
                   status |-> "vacant"]]
    /\ contracts = EmptyMap
    /\ payments = <<>>
    /\ now = ApiClockStart
    /\ apiRooms = EmptyMap
    /\ dueContracts = EmptyMap
    /\ activeContracts = EmptyMap
    /\ pending = {"rooms"}
    /\ loading = TRUE
    /\ roomsRequests = <<>>
    /\ view = NoView
    /\ confirmDialog = NoConfirm

\* NewTenantForm submit, then handleOccupyRoom of RoomCard and RoomTable: the
\* confirm dialog opens with the form data in its onConfirm closure
RoomOccupySubmit ==
    /\ ~loading
    /\ ~confirmDialog.open
    /\ view = NoView
    /\ \E r \in DOMAIN apiRooms, rentStartDate \in OccupyStartDates,
          contractEndDate \in OccupyEndDates, amountPaid \in OccupyAmounts :
          /\ Rooms(apiRooms)[r].status = "vacant"
          /\ confirmDialog' =
               [open |-> TRUE, owner |-> "room", kind |-> "occupy",
                roomId |-> r, rentStartDate |-> rentStartDate,
                contractEndDate |-> contractEndDate,
                amountPaid |-> amountPaid]
    /\ UNCHANGED <<dbVars, now, apiRooms, dueContracts, activeContracts,
                   pending, loading, roomsRequests, view>>

\* occupyRoom: the renter is created, then the contract (createContract),
\* then the initial payment when amountPaid > 0 (createPayment), then the
\* rooms are fetched; a rejected request throws into the catch block, which
\* only logs. contractFails / paymentFails: that request is rejected.
occupyRoom(roomId, rentStartDate, contractEndDate, amountPaid, contractFails, paymentFails) ==
    IF roomId \notin DOMAIN apiRooms \/ contractFails
    THEN UNCHANGED <<rooms, contracts, payments, pending, loading, roomsRequests>>
    ELSE /\ contractsPOST(roomId, rentStartDate, contractEndDate,
                          apiRooms[roomId].base_price, "active")
         /\ IF amountPaid > 0
            THEN IF paymentFails
                 THEN UNCHANGED <<payments, pending, loading, roomsRequests>>
                 ELSE /\ paymentsPOSTBody(FreshContractId, amountPaid,
                                          rentStartDate, "cash")
                      /\ pending' = pending \cup {"rooms"}
                      /\ loading' = TRUE
                      /\ UNCHANGED roomsRequests
            ELSE /\ UNCHANGED payments
                 /\ pending' = pending \cup {"rooms"}
                 /\ loading' = TRUE
                 /\ UNCHANGED roomsRequests

\* onConfirm of the occupy dialog
ConfirmOccupy ==
    /\ confirmDialog.open
    /\ confirmDialog.kind = "occupy"
    /\ Cardinality(DOMAIN contracts) < MaxContracts
    /\ \E contractFails \in BOOLEAN, paymentFails \in BOOLEAN :
          occupyRoom(confirmDialog.roomId, confirmDialog.rentStartDate,
                     confirmDialog.contractEndDate, confirmDialog.amountPaid,
                     contractFails, paymentFails)
    /\ confirmDialog' = NoConfirm
    /\ view' = NoView
    /\ UNCHANGED <<now, apiRooms, dueContracts, activeContracts>>

OccupyNext ==
    \/ FetchDone
    \/ RoomOccupySubmit
    \/ CancelConfirm
    \/ ConfirmOccupy

SpecOccupy == OccupyInit /\ [][OccupyNext]_vars

-----------------------------------------------------------------------------
(* The useRooms hook, each call of fetchRooms followed on its own: the      *)
(* request is sent, answered by GET /api/rooms from the store as it is at   *)
(* that moment, and its response arrives; requests overtake one another.    *)
(* fetchRooms is called by the mount effect and by the functions of the     *)
(* page once their write has returned (updateRoomPayment, renewContract,    *)
(* occupyRoom, ...); payments are written in between.  The specifications   *)
(* above follow a hook only as far as "a fetch is in flight" (pending).     *)

MaxFetches == 3

InFlight == {i \in DOMAIN roomsRequests : roomsRequests[i].stage # "done"}

\* the store of ApiInit; the hook has mounted with autoFetch and sent its
\* first request
HookInit ==
    /\ rooms = [r \in {1, 2} |->
                  [base_price |-> 3000, daily_rate |-> NULL,
                   status |-> IF r = 1 THEN "occupied" ELSE "vacant"]]
    /\ contracts = [c \in {1} |->
                      [room_id |-> 1, start_date |-> Date(2024, 1, 12),
                       end_date |-> Date(2024, 3, 2), monthly_rent |-> 3000,
                       total_rent |-> NULL, status |-> "active"]]
    /\ payments = <<>>
    /\ now = ApiClockStart
    /\ apiRooms = EmptyMap
    /\ dueContracts = EmptyMap
    /\ activeContracts = EmptyMap
    /\ pending = {"rooms"}
    /\ loading = TRUE
    /\ roomsRequests = <<[stage |-> "sent", response |-> EmptyMap]>>
    /\ view = NoView
    /\ confirmDialog = NoConfirm

\* fetchRooms up to its await: setLoading(true), the request is sent
fetchRooms ==
    /\ Len(roomsRequests) < MaxFetches
    /\ loading' = TRUE
    /\ pending' = pending \cup {"rooms"}
    /\ roomsRequests' = Append(roomsRequests,
                               [stage |-> "sent", response |-> EmptyMap])
    /\ UNCHANGED <<dbVars, now, apiRooms, dueContracts, activeContracts,
                   view, confirmDialog>>

\* GET /api/rooms answers a request
roomsGETAnswer ==
    /\ \E i \in DOMAIN roomsRequests :
          /\ roomsRequests[i].stage = "sent"
          /\ roomsRequests' = [roomsRequests EXCEPT
                                  ![i] = [stage |-> "answered",
                                          response |-> roomsGET]]
    /\ UNCHANGED <<dbVars, now, apiRooms, dueContracts, activeContracts,
                   pending, loading, view, confirmDialog>>

\* fetchRooms after its await: setRooms(result.data), and setLoading(false)
\* in the finally block
fetchRoomsDone ==
    /\ \E i \in DOMAIN roomsRequests :
          /\ roomsRequests[i].stage = "answered"
          /\ apiRooms' = roomsRequests[i].response
          /\ loading' = FALSE
          /\ roomsRequests' = [roomsRequests EXCEPT ![i].stage = "done"]
          /\ pending' = IF InFlight = {i} THEN pending \ {"rooms"} ELSE pending
    /\ UNCHANGED <<dbVars, now, dueContracts, activeContracts, view,
                   confirmDialog>>

HookNext ==
    \/ fetchRooms
    \/ roomsGETAnswer
    \/ fetchRoomsDone
    \/ ApiPostPaymentRequest

SpecHook == HookInit /\ [][HookNext]_vars

-----------------------------------------------------------------------------
(* Properties of the calculator *)

\* the rooms as the page would show them from a response fetched now
FreshRooms == Rooms(roomsGET)

Occupied(room) == room.renter # NoRenter

\* whole days elapsed since the end date's midnight (0 until it has passed)
WholeDaysPast(endDate) ==
    IF now <= DateTime(endDate) THEN 0
    ELSE (now - DateTime(endDate)) \div TicksPerDay

\* C1: the balance is max(0, totalRent - amountPaid): never negative, the
\* unpaid remainder while something is owed, 0 once the rent is covered or
\* overpaid, and 0 for a room without renter; the balances reported by the
\* contracts and rooms endpoints are never negative either
C1_BalanceNeverNegative ==
    /\ \A r \in DOMAIN FreshRooms :
         LET room == FreshRooms[r]
             b    == calculateBalance(room)
         IN  /\ b >= 0
             /\ ~Occupied(room) => b = 0
             /\ Occupied(room) =>
                  /\ room.renter.amountPaid <= getTotalRent(room)
                       => b + room.renter.amountPaid = getTotalRent(room)
                  /\ room.renter.amountPaid >= getTotalRent(room) => b = 0
             /\ roomsGET[r].current_contract # NoContract
                  => roomsGET[r].current_contract.balance >= 0
    /\ \A c \in DOMAIN contracts : contractsGETRow(c).balance >= 0

\* C1 witness: an overpaid contract, whose balance is 0
C1_Witness ==
    \E r \in DOMAIN FreshRooms :
        /\ Occupied(FreshRooms[r])
        /\ FreshRooms[r].renter.amountPaid > getTotalRent(FreshRooms[r])
        /\ getTotalRent(FreshRooms[r]) > 0
        /\ calculateBalance(FreshRooms[r]) = 0

\* C2: no late fee before the end date has passed, and none on a fully paid
\* contract even after it; a fully paid expired contract is not past due and
\* its status is paid (total rent 5000, paid 5000 included)
C2_NoLateFeeUnlessExpiredAndOwing ==
    \A r \in DOMAIN FreshRooms :
        LET room == FreshRooms[r]
        IN  Occupied(room) =>
              /\ now <= DateTime(room.renter.contractEndDate)
                   => calculateLateFee(room) = 0
              /\ room.renter.amountPaid >= getTotalRent(room)
                   => /\ calculateLateFee(room) = 0
                      /\ ~isPastDue(room)
                      /\ getPaymentStatus(room.renter.amountPaid,
                                          getTotalRent(room)) = "paid"

\* C2 witness: total rent 5000, 5000 paid, end date in the past
C2_Witness ==
    \E r \in DOMAIN FreshRooms :
        /\ Occupied(FreshRooms[r])
        /\ getTotalRent(FreshRooms[r]) = 5000
        /\ FreshRooms[r].renter.amountPaid = 5000
        /\ isContractExpired(FreshRooms[r].renter.contractEndDate)
        /\ getDaysOverdue(FreshRooms[r].renter.contractEndDate) > 0
        /\ calculateLateFee(FreshRooms[r]) = 0

\* amounts on which the payment status is tabulated
StatusAmounts == {-100, 0, 1, 2000, 3000, 5000}

\* C3 as stated: paid iff amountPaid >= totalAmount, unpaid iff
\* amountPaid = 0, partial in every other case
C3_Original ==
    \A r \in DOMAIN FreshRooms :
        LET room == FreshRooms[r]
        IN  Occupied(room) =>
              LET a  == room.renter.amountPaid
                  t  == getTotalRent(room)
                  st == getPaymentStatus(a, t)
              IN  /\ st = "paid" <=> a >= t
                  /\ st = "unpaid" <=> a = 0
                  /\ st = "partial" <=> ~(a >= t) /\ ~(a = 0)

\* C3 amended: paid iff amountPaid >= totalAmount; unpaid iff amountPaid <= 0
\* and amountPaid < totalAmount (nothing paid towards a positive total);
\* partial in every other case.  The status the contracts endpoint reports
\* follows the same rule.
C3_PaymentStatus ==
    /\ \A r \in DOMAIN FreshRooms :
         LET room == FreshRooms[r]
         IN  Occupied(room) =>
               LET a  == room.renter.amountPaid
                   t  == getTotalRent(room)
                   st == getPaymentStatus(a, t)
               IN  /\ st \in {"paid", "partial", "unpaid"}
                   /\ st = "paid" <=> a >= t
                   /\ st = "unpaid" <=> (a <= 0 /\ a < t)
                   /\ st = "partial" <=> (a > 0 /\ a < t)
    /\ \A c \in DOMAIN contracts :
         LET row == contractsGETRow(c)
         IN  /\ row.payment_status = "paid" <=> row.total_paid >= row.total_rent
             /\ row.payment_status = "unpaid"
                  <=> (row.total_paid <= 0 /\ row.total_paid < row.total_rent)
    /\ \A a \in StatusAmounts, t \in StatusAmounts :
         /\ getPaymentStatus(a, t) = "paid" <=> a >= t
         /\ getPaymentStatus(a, t) = "unpaid" <=> (a <= 0 /\ a < t)
         /\ getPaymentStatus(a, t) = "partial" <=> (a > 0 /\ a < t)

\* C3 witness: a contract whose total rent is 0 with nothing paid is paid,
\* and another state classifies a part payment as partial
C3_Witness ==
    \E r \in DOMAIN FreshRooms :
        /\ Occupied(FreshRooms[r])
        /\ FreshRooms[r].renter.amountPaid = 0
        /\ getTotalRent(FreshRooms[r]) = 0
        /\ getPaymentStatus(0, getTotalRent(FreshRooms[r])) = "paid"

\* C6 as stated: wherever a contract's total rent is derived, a stored
\* total_rent of the contract row is used verbatim
C6_StoredTotalRentUsedEverywhere ==
    \A c \in DOMAIN contracts :
        (Truthy(contracts[c].total_rent) /\ contracts[c].status = "active") =>
            LET stored == contracts[c].total_rent
                r      == contracts[c].room_id
            IN  /\ contractsGETRow(c).total_rent = stored
                /\ roomsGETRow(r).current_contract.total_rent = stored
                /\ FreshRooms[r].renter.totalRent = stored
                /\ getTotalRent(FreshRooms[r]) = stored

\* C8 as stated: the additional rent of an extension [oldEnd, newEnd] is what
\* the total-rent formula used for balances yields for that span
C8_AdditionalRentIsTotalRentOfSpan ==
    \A r \in DOMAIN FreshRooms :
        LET room == FreshRooms[r]
        IN  Occupied(room) =>
              \A newEnd \in CalcEndDates, type \in ContractTypes :
                  ParseDate(newEnd) >= ParseDate(room.renter.contractEndDate)
                  => calculateAdditionalRent(room.renter.contractEndDate,
                         newEnd, room.price, room.dailyRate, type)
                     = calculateTotalRentFromDates(
                         room.renter.contractEndDate, newEnd, room.price)

\* C9: on an expired contract with a balance the late fee is the number of
\* whole days past the end date times the daily rate round(price / 30);
\* total rent 5000, paid 2000, 10 days overdue at daily rate 100 give
\* balance 3000, late fee 1000 and total due 4000
C9_LateFeePerDiem ==
    \A r \in DOMAIN FreshRooms :
        LET room == FreshRooms[r]
        IN  Occupied(room) =>
              LET end  == room.renter.contractEndDate
                  days == WholeDaysPast(end)
              IN  /\ getDaysOverdue(end) = Max(0, -getDaysUntilDue(end))
                  /\ getDaysOverdue(end) = days
                  /\ (isContractExpired(end) /\ calculateBalance(room) > 0)
                       => calculateLateFee(room)
                          = days * RoundDiv(room.price, 30)
                  /\ (getTotalRent(room) = 5000 /\ room.renter.amountPaid = 2000
                      /\ days = 10 /\ RoundDiv(room.price, 30) = 100)
                       => /\ calculateBalance(room) = 3000
                          /\ calculateLateFee(room) = 1000
                          /\ calculateTotalDue(room) = 4000

\* C9 witness: total rent 5000, 2000 paid, 10 days overdue, daily rate 100
C9_Witness ==
    \E r \in DOMAIN FreshRooms :
        /\ Occupied(FreshRooms[r])
        /\ getTotalRent(FreshRooms[r]) = 5000
        /\ FreshRooms[r].renter.amountPaid = 2000
        /\ getDaysOverdue(FreshRooms[r].renter.contractEndDate) = 10
        /\ getDailyRate(FreshRooms[r]) = 100
        /\ calculateLateFee(FreshRooms[r]) = 1000

\* C10 as stated: whenever the contract is expired and the balance is > 0,
\* the late fee is > 0
C10_Original ==
    \A r \in DOMAIN FreshRooms :
        LET room == FreshRooms[r]
        IN  (Occupied(room)
             /\ isContractExpired(room.renter.contractEndDate)
             /\ calculateBalance(room) > 0)
            => calculateLateFee(room) > 0

\* C10 amended: whenever the end date lies at least one whole day in the
\* past, the balance is > 0 and the daily rate round(price / 30) is > 0, the
\* late fee is > 0; during the first day after the end date, or at a daily
\* rate of 0, the contract is expired and the late fee is 0
C10_LateFeeAfterOneDay ==
    \A r \in DOMAIN FreshRooms :
        LET room == FreshRooms[r]
        IN  (Occupied(room) /\ calculateBalance(room) > 0) =>
              LET end == room.renter.contractEndDate
              IN  /\ (now - DateTime(end) >= TicksPerDay
                      /\ RoundDiv(room.price, 30) > 0)
                       => calculateLateFee(room) > 0
                  /\ (isContractExpired(end)
                      /\ (now - DateTime(end) < TicksPerDay
                          \/ RoundDiv(room.price, 30) = 0))
                       => calculateLateFee(room) = 0

\* C10 witness: exactly one whole day past the end date with a balance, and
\* a late fee of one daily rate
C10_Witness ==
    \E r \in DOMAIN FreshRooms :
        /\ Occupied(FreshRooms[r])
        /\ calculateBalance(FreshRooms[r]) > 0
        /\ now - DateTime(FreshRooms[r].renter.contractEndDate) = TicksPerDay
        /\ getDailyRate(FreshRooms[r]) > 0
        /\ calculateLateFee(FreshRooms[r]) = getDailyRate(FreshRooms[r])

-----------------------------------------------------------------------------
(* Properties of the application *)

\* C4: when "mark as fully paid" is confirmed, the amount recorded is the
\* total due (balance plus accrued late fee) of the room's contract as it
\* stands at the moment the payment is recorded.
C4_FullPaymentIsTotalDueWhenRecorded ==
    [][(ConfirmPayment /\ confirmDialog.full /\ payments' # payments)
         => payments'[Len(payments')].amount
              = calculateTotalDue(FreshRooms[confirmDialog.roomId])]_vars

\* C5: whenever an entered amount is recorded as a payment (room payment
\* form, due-list dialog, add-payment dialog; "mark as fully paid" set
\* aside), the amount is not greater than the balance the contract has when
\* the payment is recorded.
C5_NoPaymentAboveCurrentBalance ==
    [][(/\ payments' # payments
        /\ ~(confirmDialog.open /\ confirmDialog.full))
         => payments'[Len(payments')].amount
              <= contractsGETRow(payments'[Len(payments')].contract_id).balance]_vars

\* C7: once a confirmed renewal with additional rent a > 0 has been written,
\* the stored end date of the contract is the new end date and its stored
\* total rent is the total that applied before the renewal (the stored
\* total, or the total the server reported) plus a.
C7_RenewalAddsToStoredTotal ==
    [][(/\ ConfirmRenew
        /\ confirmDialog.additionalRent > 0
        /\ apiRooms[confirmDialog.roomId].current_contract # NoContract)
         => LET c == apiRooms[confirmDialog.roomId].current_contract.id
                a == confirmDialog.additionalRent
            IN  /\ contracts'[c].end_date = confirmDialog.endDate
                /\ contracts'[c].total_rent
                     \in {contracts[c].total_rent + a,
                          contractsGETRow(c).total_rent + a}]_vars

-----------------------------------------------------------------------------
(* Further properties of the calculator *)

\* C11: the total due of every room is its balance plus its late fee: 0
\* without a renter, the balance alone while the contract is not expired or
\* nothing is owed, and the balance plus days overdue x daily rate on an
\* expired contract that still owes
C11_TotalDueIsBalancePlusLateFee ==
    \A r \in DOMAIN FreshRooms :
        LET room == FreshRooms[r]
        IN  /\ calculateTotalDue(room)
                 = calculateBalance(room) + calculateLateFee(room)
            /\ ~Occupied(room) => calculateTotalDue(room) = 0
            /\ Occupied(room) =>
                 LET end  == room.renter.contractEndDate
                     owed == Max(0, getTotalRent(room) - room.renter.amountPaid)
                 IN  /\ ~isContractExpired(end)
                          => calculateTotalDue(room) = owed
                     /\ (isContractExpired(end) /\ owed > 0)
                          => calculateTotalDue(room)
                             = owed + getDaysOverdue(end) * getDailyRate(room)
                     /\ owed = 0 => calculateTotalDue(room) = 0

\* C11 witness: an expired contract that owes and carries a late fee, next
\* to a room without renter
C11_Witness ==
    /\ \E r \in DOMAIN FreshRooms :
          /\ Occupied(FreshRooms[r])
          /\ isContractExpired(FreshRooms[r].renter.contractEndDate)
          /\ calculateBalance(FreshRooms[r]) > 0
          /\ calculateLateFee(FreshRooms[r]) > 0
          /\ calculateTotalDue(FreshRooms[r]) > calculateBalance(FreshRooms[r])
    /\ \E r \in DOMAIN FreshRooms :
          ~Occupied(FreshRooms[r]) /\ calculateTotalDue(FreshRooms[r]) = 0

\* the calendar day (day number) the clock is in
Today == now \div TicksPerDay

\* C12 as stated: a contract is expired if and only if its end date is
\* strictly before today's calendar date, whatever the time of day; the
\* overdue flag of the contracts endpoint follows the same comparison
C12_ExpiredIffEndDateBeforeToday ==
    /\ \A r \in DOMAIN FreshRooms :
         Occupied(FreshRooms[r]) =>
            (isContractExpired(FreshRooms[r].renter.contractEndDate)
               <=> ParseDate(FreshRooms[r].renter.contractEndDate) < Today)
    /\ \A c \in DOMAIN contracts :
         contractsGETRow(c).is_overdue
            => ParseDate(contracts[c].end_date) < Today

-----------------------------------------------------------------------------
(* Properties of the API *)

\* C13 as stated: the status of a contract only ever changes from active to
\* completed, evicted or terminated, and never changes again after that
C13_StatusOnlyLeavesActive ==
    [][\A c \in DOMAIN contracts :
          contracts'[c].status # contracts[c].status
            => /\ contracts[c].status = "active"
               /\ contracts'[c].status
                    \in {"completed", "evicted", "terminated"}]_vars

\* the request evictTenant sends for a contract: PATCH {status: "evicted"}
evictTenantRequest(c) ==
    /\ contractsPATCH(c, NoDate, "evicted", NULL)
    /\ UNCHANGED <<payments, now, clientVars>>

\* C14: an eviction sets the contract to evicted and its room to vacant and
\* leaves the contract's dates, rent and payment rows as they were, so the
\* balance reported for the contract is the same right after as right
\* before; and a payment can still be recorded against an evicted contract
C14_EvictionKeepsDebt ==
    [][\A c \in DOMAIN contracts :
            evictTenantRequest(c) =>
               /\ contracts'[c].status = "evicted"
               /\ rooms'[contracts[c].room_id].status = "vacant"
               /\ contracts'[c].start_date = contracts[c].start_date
               /\ contracts'[c].end_date = contracts[c].end_date
               /\ contracts'[c].monthly_rent = contracts[c].monthly_rent
               /\ contracts'[c].total_rent = contracts[c].total_rent
               /\ payments' = payments
               /\ enrichContract(c, contracts'[c], payments', now').balance
                    = contractsGETRow(c).balance
               /\ enrichContract(c, contracts'[c], payments', now').total_paid
                    = contractsGETRow(c).total_paid]_vars

\* C14 witness: an evicted contract with a vacant room that still shows a
\* balance after a payment has been recorded against it, and against which
\* POST /api/payments records one more
C14_Witness ==
    \E c \in DOMAIN contracts :
        /\ contracts[c].status = "evicted"
        /\ rooms[contracts[c].room_id].status = "vacant"
        /\ contractsGETRow(c).total_paid > 0
        /\ contractsGETRow(c).balance > 0
        /\ ENABLED (paymentsPOST(c, 2000) /\ Len(payments') = Len(payments) + 1)

-----------------------------------------------------------------------------
(* Properties of the total-rent formulas *)

\* C15 as stated: the total rent is never negative under either formula,
\* the calendar-month decomposition and the classification by day span, an
\* end date before the start date included
C15_TotalRentNeverNegative ==
    \A c \in DOMAIN contracts :
        LET k == contracts[c]
            r == k.room_id
        IN  /\ calculateTotalRentFromDates(k.start_date, k.end_date,
                                           k.monthly_rent) >= 0
            /\ contractsGETRow(c).total_rent >= 0
            /\ roomsGETRow(r).current_contract.total_rent >= 0
            /\ calculateTotalRentByDuration(k.start_date, k.end_date,
                   k.monthly_rent, k.total_rent, rooms[r].daily_rate) >= 0
            /\ FreshRooms[r].renter.totalRent >= 0

\* C16 as stated: a contract from a date to the same date one year later
\* costs 12 x the monthly rate with no daily component, and for an end date
\* not before the start date the calendar-month formula is fullMonths x
\* monthlyRate + remainingDays x dailyRate with remainingDays >= 0
C16_YearlyAndCalendarMonths ==
    \A c \in DOMAIN contracts :
        LET k     == contracts[c]
            span  == fullMonthsAndRemainingDays(k.start_date, k.end_date)
            daily == RoundDiv(k.monthly_rent, 30)
            priced == span.fullMonths * k.monthly_rent
                      + span.remainingDays * daily
        IN  /\ k.end_date = [k.start_date EXCEPT !.y = @ + 1] =>
                 /\ span = [fullMonths |-> 12, remainingDays |-> 0]
                 /\ calculateTotalRentFromDates(k.start_date, k.end_date,
                        k.monthly_rent) = 12 * k.monthly_rent
                 /\ contractsCalculateTotalRent(k.start_date, k.end_date,
                        k.monthly_rent) = 12 * k.monthly_rent
            /\ ParseDate(k.end_date) >= ParseDate(k.start_date) =>
                 /\ span.remainingDays >= 0
                 /\ calculateTotalRentFromDates(k.start_date, k.end_date,
                        k.monthly_rent) = priced
                 /\ contractsCalculateTotalRent(k.start_date, k.end_date,
                        k.monthly_rent) = priced

\* C17 as stated: a custom contract of d < 28 days costs d x dailyRate, the
\* daily rate being the room's own when it has one and round(price / 30)
\* only when it has none
C17_CustomShortStayUsesDailyRate ==
    \A r \in DOMAIN FreshRooms :
        LET room == FreshRooms[r]
        IN  Occupied(room) =>
              LET d == ParseDate(room.renter.contractEndDate)
                       - ParseDate(room.renter.rentStartDate)
                  dailyRate == IF Truthy(room.dailyRate) THEN room.dailyRate
                               ELSE RoundDiv(room.price, 30)
              IN  (0 < d /\ d < 28) =>
                    /\ getTotalRent(room) = d * dailyRate
                    /\ calculateTotalRent(room.renter.rentStartDate,
                           room.renter.contractEndDate, room.price,
                           room.dailyRate, "custom") = d * dailyRate

-----------------------------------------------------------------------------
(* Properties of the tenant views *)

\* C18 as stated: an occupied room's tenant is listed under fully-paid
\* exactly when getPaymentStatus(amountPaid, total rent) is paid, and under
\* not-fully-paid exactly otherwise
C18_TenantViewsFollowPaymentStatus ==
    \A r \in DOMAIN FreshRooms :
        LET room == FreshRooms[r]
        IN  (room.status = "occupied" /\ Occupied(room)) =>
              LET paid == getPaymentStatus(room.renter.amountPaid,
                                           room.renter.totalRent) = "paid"
              IN  /\ r \in getFilteredTenants(FreshRooms, "fully-paid")
                        <=> paid
                  /\ r \in getFilteredTenants(FreshRooms, "not-fully-paid")
                        <=> ~paid

-----------------------------------------------------------------------------
(* Properties of the dialogs *)

\* C19 as stated: the store is written (a payment row created, a contract
\* or room changed) only by the confirm step of an open confirmation dialog
C19_WritesOnlyAfterConfirmation ==
    [][(payments' # payments \/ contracts' # contracts \/ rooms' # rooms)
          => confirmDialog.open]_vars

-----------------------------------------------------------------------------
(* Properties of the end-date proposal *)

\* the start dates the forms pass to calculateEndDate: the start date of a
\* new contract and the end date of the contract being renewed
FormStartDates ==
    {contracts[c].start_date : c \in DOMAIN contracts}
        \cup {contracts[c].end_date : c \in DOMAIN contracts}

\* the day d of month m of year y, counted on into the following month when
\* month m has fewer than d days
SameDayOf(y, m, d) == CivilFromDays(DaysFromCivil(y, m, 1) + d - 1)

\* C20 as stated: calculateEndDate gives, for 'monthly', the same day of the
\* next calendar month (2024-01-15 -> 2024-02-15), overflowing into the month
\* after when that month is shorter (2023-01-31 -> 2023-03-03); for 'yearly'
\* the same date one year later; for 'custom' or an empty start, nothing
C20_EndDateIsOnePeriodLater ==
    \A tz \in TimezoneOffsets :
        /\ \A s \in FormStartDates \cup {Date(2024, 1, 15), Date(2023, 1, 31)} :
              /\ calculateEndDate(s, "monthly", tz)
                   = IF s.m = 12 THEN SameDayOf(s.y + 1, 1, s.d)
                     ELSE SameDayOf(s.y, s.m + 1, s.d)
              /\ calculateEndDate(s, "yearly", tz) = SameDayOf(s.y + 1, s.m, s.d)
              /\ calculateEndDate(s, "custom", tz) = NoDate
        /\ calculateEndDate(Date(2024, 1, 15), "monthly", tz) = Date(2024, 2, 15)
        /\ calculateEndDate(Date(2023, 1, 31), "monthly", tz) = Date(2023, 3, 3)
        /\ \A type \in ContractTypes : calculateEndDate(NoDate, type, tz) = NoDate

-----------------------------------------------------------------------------
(* Properties of the payment percentage *)

\* amounts paid and totals on which the percentage is tabulated
PercentageAmounts == {0, 1, 29, 200, 3000, 5000, 6000}

-----------------------------------------------------------------------------
(* Further properties of the API *)

\* the contracts of room r
ContractsOf(r) == {c \in DOMAIN contracts : contracts[c].room_id = r}

PostContractIds == DOMAIN contracts \cup {NULL}
PostAmounts == {NULL, -500, 0, 2000}
PostDates == {NoDate, Date(2024, 3, 4)}
PostMethods == {"", "gcash"}

-----------------------------------------------------------------------------
(* Properties of the contract list *)

\* C24: among the contracts of a status, the paymentStatus filter 'paid'
\* returns those with totalPaid >= totalRent and 'unpaid' those with
\* totalPaid < totalRent, so each contract is in exactly one of the two;
\* 'overdue' returns those whose end date is before now with a balance > 0,
\* all of which are in the 'unpaid' result
C24_PaymentStatusFilterPartitions ==
    \A c \in DOMAIN contracts :
        LET status  == contracts[c].status
            row     == contractsGETRow(c)
            paid    == DOMAIN contractsGET(status, "paid")
            unpaid  == DOMAIN contractsGET(status, "unpaid")
            overdue == DOMAIN contractsGET(status, "overdue")
        IN  /\ c \in paid <=> row.total_paid >= row.total_rent
            /\ c \in unpaid <=> row.total_paid < row.total_rent
            /\ c \in paid <=> c \notin unpaid
            /\ c \in overdue
                 <=> (DateTime(contracts[c].end_date) < now /\ row.balance > 0)
            /\ overdue \subseteq unpaid
            /\ c \in paid => contractsGET(status, "paid")[c] = row

\* C24 witness: a part-paid contract past its end date is both in the unpaid
\* and in the overdue result
C24_Witness ==
    \E c \in DOMAIN contracts :
        /\ contractsGETRow(c).payment_status = "partial"
        /\ c \in DOMAIN contractsGET(contracts[c].status, "overdue")
        /\ c \in DOMAIN contractsGET(contracts[c].status, "unpaid")
        /\ c \notin DOMAIN contractsGET(contracts[c].status, "paid")

\* the active contracts of room r
ActiveContractsOf(r) ==
    {c \in ContractsOf(r) : contracts[c].status = "active"}

\* C25: after any sequence of contract create, update and delete requests
\* a room is occupied if and only if it has exactly one active contract
C25_OccupiedIffOneActiveContract ==
    \A r \in DOMAIN rooms :
        rooms[r].status = "occupied" <=> Cardinality(ActiveContractsOf(r)) = 1

-----------------------------------------------------------------------------
(* Further properties of the calculators *)

\* C27: for a contract without stored total rent, the total rent of the
\* page's room (transformRoomData), paymentUtils.getTotalRent and the total
\* rent reported by the contracts and rooms endpoints are all equal
C27_TotalRentAgrees ==
    \A r \in DOMAIN rooms :
        LET apiRoom == roomsGETRow(r)
            room    == transformRoomData(apiRoom)
            cc      == apiRoom.current_contract
        IN  (cc # NoContract /\ contracts[cc.id].total_rent = NULL)
            => /\ room.renter.totalRent = cc.total_rent
               /\ getTotalRent(room) = cc.total_rent
               /\ contractsGETRow(cc.id).total_rent = cc.total_rent

\* the numbers of days by which an end date is moved
EndDateShifts == 1..3

\* C28: for a fixed start date and monthly rent, moving the end date one or
\* more days later never lowers the total rent, as calculateTotalRentFromDates
\* and the contracts route compute it: the total up to an end date some days
\* before the contract's (and not before its start) is not above the
\* contract's
C28_TotalRentMonotoneInEndDate ==
    \A c \in DOMAIN contracts, k \in EndDateShifts :
        LET start   == contracts[c].start_date
            later   == contracts[c].end_date
            earlier == ToISODate(ParseDate(later) - k)
            rent    == contracts[c].monthly_rent
        IN  ParseDate(earlier) >= ParseDate(start)
            => /\ calculateTotalRentFromDates(start, earlier, rent)
                    <= calculateTotalRentFromDates(start, later, rent)
               /\ contractsCalculateTotalRent(start, earlier, rent)
                    <= contractsCalculateTotalRent(start, later, rent)

-----------------------------------------------------------------------------
(* Further properties of the application *)

\* C26: a payment submitted through an amount-entry form (the room payment
\* form, the due list form, the add-payment dialog), validated against the
\* balance the page last fetched, never takes the payments recorded for a
\* contract above the contract's total rent
C26_EnteredPaymentsWithinTotalRent ==
    [][\A c \in DOMAIN contracts :
          LET before == enrichContract(c, contracts[c], payments, now)
              after  == enrichContract(c, contracts'[c], payments', now')
          IN  (/\ Len(payments') = Len(payments) + 1
               /\ payments'[Len(payments')].contract_id = c
               /\ ~(confirmDialog.open /\ confirmDialog.full)
               /\ before.total_paid <= before.total_rent)
              => after.total_paid <= after.total_rent]_vars

\* C29: occupyRoom is all-or-nothing: a call that does not run to its end
\* (no contract was created, or amountPaid > 0 and no payment was recorded)
\* leaves no contract or payment behind and leaves the room as it was
C29_OccupyRoomAllOrNothing ==
    [][(/\ confirmDialog.open
        /\ confirmDialog.kind = "occupy"
        /\ confirmDialog' = NoConfirm
        /\ ~(/\ DOMAIN contracts' # DOMAIN contracts
             /\ confirmDialog.amountPaid > 0
                  => Len(payments') = Len(payments) + 1))
       => UNCHANGED <<rooms, contracts, payments>>]_vars

-----------------------------------------------------------------------------
(* Properties of the data hooks *)

\* C30: while requests issued through the hook are in flight, loading stays
\* true until every one of them has finished, and once all have finished
\* the list held in state is the response to the most recently issued fetch
C30_LoadingAndLatestResponse ==
    /\ InFlight # {} => loading
    /\ (InFlight = {} /\ roomsRequests # <<>>)
         => apiRooms = roomsRequests[Len(roomsRequests)].response

====
